---- MODULE Spec2Model ----
(***************************************************************************)
(* State-machine model of sacn/transmitter.go: the Transmitter registry    *)
(* (universes, master, destinations, multicast), the caller's API calls    *)
(* and, per activated universe, the two goroutines Activate starts (the    *)
(* keep-alive loop and the channel-consuming send loop), at the            *)
(* granularity of one access to the registry maps or to the shared packet  *)
(* per step.  Nothing in the source synchronises these goroutines, so      *)
(* every interleaving of their steps is a behaviour.                       *)
(*                                                                         *)
(* Outcomes of the unsynchronised accesses.  A map operation either takes  *)
(* effect as one step or, when a write to a map overlaps another access    *)
(* to the same map, the Go runtime may abort the program: the action       *)
(* ConcurrentMapAccess.  A packet serialised while SetData is replacing    *)
(* its payload may carry either payload or parts of both: FramesRead.      *)
(* The one-byte increment of the sequence number is taken as one step.     *)
(*                                                                         *)
(* Specifications.  Spec: a caller working with one universe, default      *)
(* priority and interval, on a network that accepts every write to an      *)
(* open socket.  SpecDefaults: the caller also changes priority and        *)
(* keep-alive interval.  SpecFan: one session fanning out to multicast     *)
(* and unicast destinations on a network that may refuse a write.          *)
(* SpecUniverses: Activate calls on several universes.  SpecDest:          *)
(* SetDestinations alone, with longer host lists.                          *)
(***************************************************************************)
EXTENDS Integers, Sequences, FiniteSets, TLC

\* ------------------------------------------------------------------ bounds
NumUniverses == 2      \* universe numbers the registry is keyed by
MaxSessions  == 2      \* Activate calls that may get as far as a socket
MaxTicks     == 1      \* keep-alive rounds that reach sendOut, all sessions
MaxPushes    == 1      \* payloads pushed, all sessions
MaxPayload   == 1      \* distinct non-zero payloads
MaxHosts     == 1      \* length of a SetDestinations argument
MaxConfig    == 1      \* configuration calls (the Set... methods)
MaxDestHosts == 4      \* length of a SetDestinations argument, SpecDest
MaxDestCalls == 2      \* SetDestinations calls, SpecDest
MaxFanConfig == 2      \* configuration calls, SpecFan
MaxFaults    == 1      \* writes the network refuses, SpecFan

\* ------------------------------------------------------- program constants
SeqModulus == 256      \* the sequence number is one byte
SACNPort   == 5568     \* fixed destination port
DefaultInterval == 1   \* time.Second * 1, the interval NewTransmitter sets

Universes == 1..NumUniverses
OneUniverse == {1}     \* the universe a caller with a single universe uses
OneSession == {1}      \* the session of a caller who activates once
Sessions  == 1..MaxSessions
Nil       == 0         \* a missing map entry, a nil *DataPacket
ZeroData  == 0         \* make([]byte, 512): the all-zero payload
Payloads  == 1..MaxPayload
TornData  == MaxPayload + 1   \* a buffer holding parts of two payloads
Hosts     == {"h1", "bad"}
DestHosts == {"", "h1", "h2", "bad"}
Resolvable == {"h1", "h2"}
Intervals == {DefaultInterval, DefaultInterval + 1}
Priorities == {0, 100}
Kinds     == {"ka", "snd"}
Threads   == Sessions \X Kinds

KA(s)  == <<s, "ka">>
SND(s) == <<s, "snd">>

VARIABLES
    universes,      \* t.universes: universe -> channel (session id), Nil if absent
    master,         \* t.master: universe -> *DataPacket (session id), Nil if absent
    destinations,   \* t.destinations: universe -> sequence of UDP addresses
    multicast,      \* t.multicast: universe -> BOOLEAN
    priority,       \* t.priority
    keepAliveInterval, \* t.keepAliveInterval
    destCall,       \* the last SetDestinations call: its arguments and result
    callPc,         \* position of the Activate call using session slot s
    univ,           \* the universe argument of that call
    res,            \* what the Activate call that returned last returned
    prev,           \* the sessions already torn down when the call was made
    atActivate,     \* t.keepAliveInterval when the call started its goroutines
    slept,          \* the duration of the keep-alive goroutine's last Sleep
    sock,           \* serv of the session: "none", "open", "closed"
    chan,           \* ch of the session: "none", "open", "closed"
    pkt,            \* the DataPacket allocated by the call (masterPacket)
    pc,             \* position of each goroutine
    loc,            \* the goroutine's locals
    wire,           \* last datagram sent through the session's socket
    ticks,          \* keep-alive rounds still allowed to reach sendOut
    pushes,         \* payloads the caller may still push
    faults,         \* writes on an open socket the network may still refuse
    configs,        \* configuration calls the caller may still make
    crashed         \* a goroutine panicked: the process is gone

vars == <<universes, master, destinations, multicast, priority,
          keepAliveInterval, destCall, callPc, univ, res, prev, atActivate,
          slept, sock, chan, pkt, pc, loc, wire, ticks, pushes, faults,
          configs, crashed>>

regVars  == <<universes, master>>
cfgVars  == <<destinations, multicast, priority, keepAliveInterval, destCall,
              configs>>
callVars == <<callPc, univ, res, prev, atActivate>>

\* ------------------------------------------------------------ DataPacket
\* The packet type lives outside transmitter.go; these follow the frame
\* state operations the transmitter relies on.
NewDataPacket == [universe |-> Nil, data |-> ZeroData, seq |-> 0,
                  term |-> FALSE, prio |-> 0]

SetUniverse(p, u) == [p EXCEPT !.universe = u]

SetData(p, d) == [p EXCEPT !.data = d]

PacketSetPriority(p, prio) == [p EXCEPT !.prio = prio]

SetStreamTerminated(p, b) == [p EXCEPT !.term = b]

SequenceIncr(p) == [p EXCEPT !.seq = (p.seq + 1) % SeqModulus]

\* packet.getBytes(): the frame as serialised from the packet's current state
getBytes(p) == [universe |-> p.universe, data |-> p.data, seq |-> p.seq,
                term |-> p.term, prio |-> p.prio]

NoPacket == [universe |-> Nil, data |-> ZeroData, seq |-> 0, term |-> FALSE,
             prio |-> 0]

\* ------------------------------------------------------------- addresses
\* net.ResolveUDPAddr("udp", dest+":5568")
ResolveUDPAddr(host) == <<host, SACNPort>>

CanResolve(host) == host \in Resolvable

generateMulticast(u) == <<"mcast", u, SACNPort>>

\* The loop of SetDestinations as it would be if an entry that does not
\* resolve ended it (break for continue at line 159).
RECURSIVE NewDestStopsAtError(_)
NewDestStopsAtError(hosts) ==
    IF hosts = <<>> THEN <<>>
    ELSE LET dest == Head(hosts)
         IN  IF dest = "" THEN NewDestStopsAtError(Tail(hosts))
             ELSE IF ~CanResolve(dest) THEN <<>>
             ELSE <<ResolveUDPAddr(dest)>> \o NewDestStopsAtError(Tail(hosts))

\* The loop of SetDestinations over its argument: newDest after the loop.
RECURSIVE NewDest(_)
NewDest(hosts) ==
    IF hosts = <<>> THEN <<>>
    ELSE LET dest == Head(hosts)
             rest == NewDest(Tail(hosts))
         IN  IF dest = "" THEN rest
             ELSE IF ~CanResolve(dest) THEN rest
             ELSE <<ResolveUDPAddr(dest)>> \o rest

\* errs after the loop: one error per non-empty entry that does not resolve
RECURSIVE DestErrs(_)
DestErrs(hosts) ==
    IF hosts = <<>> THEN <<>>
    ELSE LET dest == Head(hosts)
             rest == DestErrs(Tail(hosts))
         IN  IF dest = "" THEN rest
             ELSE IF ~CanResolve(dest) THEN <<<<"error", dest>>>> \o rest
             ELSE rest

\* lines 165-168: nil when there was no error, else the error slice
DestResult(hosts) == IF Len(DestErrs(hosts)) = 0 THEN <<>> ELSE DestErrs(hosts)

HostLists == UNION {[1..n -> Hosts] : n \in 0..MaxHosts}

DestHostLists == UNION {[1..n -> DestHosts] : n \in 0..MaxDestHosts}

NoDestCall == [universe |-> Nil, hosts |-> <<>>, errs |-> <<>>]

\* --------------------------------------------------------------- helpers
IsActivated(u) == universes[u] # Nil

NoLocals == [packet |-> Nil, dsts |-> <<>>, idx |-> 0, nw |-> 0,
             ret |-> "none", i |-> ZeroData]

\* what wire holds before the first datagram.  wire[s] is the last datagram
\* that left through socket s: the frame, its destination, the goroutine
\* whose sendOut call wrote it, its number within that call, and whether a
\* later write on the socket has failed.
NoFrame == [sock |-> Nil, frame |-> getBytes(NoPacket), dst |-> <<>>,
            tx |-> <<Nil, "none">>, n |-> 0, lost |-> FALSE]

SendOutPcs == {"so_check", "so_load", "so_mcw", "so_dst"}

\* inside sendOut after the sequence increment, up to the last write
InTransmit == {"so_mcw", "so_dst"}

\* the universe captured by goroutine t's closure
universeOf(t) == univ[t[1]]

\* ------------------------------------------------------------------ Init
\* the Transmitter as NewTransmitter returns it (lines 30-39), with the
\* budgets of the run
InitState(nTicks, nPushes, nConfigs, nFaults) ==
    /\ universes = [u \in Universes |-> Nil]
    /\ master = [u \in Universes |-> Nil]
    /\ destinations = [u \in Universes |-> <<>>]
    /\ multicast = [u \in Universes |-> FALSE]
    /\ priority = 0
    /\ keepAliveInterval = DefaultInterval
    /\ destCall = NoDestCall
    /\ callPc = [s \in Sessions |-> "idle"]
    /\ univ = [s \in Sessions |-> Nil]
    /\ res = "none"
    /\ prev = [s \in Sessions |-> {}]
    /\ atActivate = [s \in Sessions |-> 0]
    /\ slept = [s \in Sessions |-> 0]
    /\ sock = [s \in Sessions |-> "none"]
    /\ chan = [s \in Sessions |-> "none"]
    /\ pkt = [s \in Sessions |-> NoPacket]
    /\ pc = [t \in Threads |-> "none"]
    /\ loc = [t \in Threads |-> NoLocals]
    /\ wire = [s \in Sessions |-> NoFrame]
    /\ ticks = nTicks
    /\ pushes = nPushes
    /\ faults = nFaults
    /\ configs = nConfigs
    /\ crashed = FALSE

\* the network takes every datagram written to an open socket
Init == InitState(MaxTicks, MaxPushes, MaxConfig, 0)

\* the sessions whose send goroutine has run to its end (line 110)
TornDown == {q \in Sessions : pc[SND(q)] = "done"}

\* ------------------------------------------------------- Activate (58-113)
\* the errors Activate returns: line 61, line 66, line 70
ActivateErrors == {"AlreadyActive", "ResolveError", "ListenError"}

\* Activate as it would be with the channel registered (line 74) ahead of
\* the socket (lines 64-71): a socket error then leaves the entry behind.
ActivateCallRegistersFirst(s, u) ==
    /\ ~crashed
    /\ callPc[s] = "idle"
    /\ sock[s] = "none"
    /\ \A r \in 1..(s - 1) : sock[r] # "none"
    /\ IF universes[u] # Nil
       THEN /\ res' = "AlreadyActive"
            /\ UNCHANGED <<callPc, univ, prev, sock, universes>>
       ELSE \/ /\ \E e \in {"ResolveError", "ListenError"} :
                       res' = e
               /\ universes' = [universes EXCEPT ![u] = s]
               /\ UNCHANGED <<callPc, univ, prev, sock>>
            \/ /\ sock' = [sock EXCEPT ![s] = "open"]
               /\ callPc' = [callPc EXCEPT ![s] = "a_regU"]
               /\ univ' = [univ EXCEPT ![s] = u]
               /\ prev' = [prev EXCEPT ![s] = TornDown]
               /\ UNCHANGED <<res, universes>>
    /\ UNCHANGED <<master, cfgVars, atActivate, slept, chan, pkt, pc, loc,
                   wire, ticks, pushes, faults, crashed>>

\* lines 60-71: the already-activated check, one read of t.universes, then
\* ResolveUDPAddr / ListenUDP, which touch nothing shared and may fail.
\* Session slots are taken in order; a call that fails leaves its slot free.
ActivateCall(s, u) ==
    /\ ~crashed
    /\ callPc[s] = "idle"
    /\ sock[s] = "none"
    /\ \A r \in 1..(s - 1) : sock[r] # "none"
    /\ IF IsActivated(u)
       THEN /\ res' = "AlreadyActive"
            /\ UNCHANGED <<callPc, univ, prev, sock>>
       ELSE \/ /\ \E e \in {"ResolveError", "ListenError"} :
                       res' = e
               /\ UNCHANGED <<callPc, univ, prev, sock>>
            \/ /\ sock' = [sock EXCEPT ![s] = "open"]
               /\ callPc' = [callPc EXCEPT ![s] = "a_regU"]
               /\ univ' = [univ EXCEPT ![s] = u]
               /\ prev' = [prev EXCEPT ![s] = TornDown]
               /\ UNCHANGED res
    /\ UNCHANGED <<regVars, cfgVars, atActivate, slept, chan, pkt, pc, loc,
                   wire, ticks, pushes, faults, crashed>>

\* lines 73-74: ch := make(chan []byte); t.universes[universe] = ch
ActivateRegisterChannel(s) ==
    /\ ~crashed
    /\ callPc[s] = "a_regU"
    /\ chan' = [chan EXCEPT ![s] = "open"]
    /\ universes' = [universes EXCEPT ![univ[s]] = s]
    /\ callPc' = [callPc EXCEPT ![s] = "a_regM"]
    /\ UNCHANGED <<master, cfgVars, univ, res, prev, atActivate, slept, sock,
                   pkt, pc, loc, wire, ticks, pushes, faults, crashed>>

\* lines 76-83: the master packet as initialised by Activate
MasterPacket(u, prio) ==
    LET p == SetData(SetUniverse(NewDataPacket, u), ZeroData)
    IN  IF prio > 0 THEN PacketSetPriority(p, prio) ELSE p

\* lines 76-112: t.master[universe] = &masterPacket, both goroutines are
\* started and ch is returned
ActivateRegisterMaster(s) ==
    /\ ~crashed
    /\ callPc[s] = "a_regM"
    /\ pkt' = [pkt EXCEPT ![s] = MasterPacket(univ[s], priority)]
    /\ master' = [master EXCEPT ![univ[s]] = s]
    /\ pc' = [pc EXCEPT ![KA(s)] = "loop", ![SND(s)] = "recv"]
    /\ callPc' = [callPc EXCEPT ![s] = "returned"]
    /\ res' = "ok"
    /\ atActivate' = [atActivate EXCEPT ![s] = keepAliveInterval]
    /\ UNCHANGED <<universes, cfgVars, univ, prev, slept, sock, chan, loc,
                   wire, ticks, pushes, faults, crashed>>

\* ------------------------------------------------------ sendOut (180-196)
\* the call t.sendOut(serv, universe) made by goroutine t, returning to ret
EnterSendOut(t, ret) ==
    /\ pc' = [pc EXCEPT ![t] = "so_check"]
    /\ loc' = [loc EXCEPT ![t] = [NoLocals EXCEPT !.ret = ret]]

\* line 94, as seen from a goroutine whose step takes it to position to:
\* when the keep-alive goroutine is back from sendOut it reads
\* t.keepAliveInterval and sleeps that long
Sleep(t, to) ==
    slept' = IF t[2] = "ka" /\ to = "loop"
             THEN [slept EXCEPT ![t[1]] = keepAliveInterval]
             ELSE slept

\* line 182: only send if the universe was activated
SendOutCheck(t) ==
    /\ ~crashed
    /\ pc[t] = "so_check"
    /\ IF master[universeOf(t)] = Nil
       THEN /\ pc' = [pc EXCEPT ![t] = loc[t].ret]
            /\ loc' = [loc EXCEPT ![t] = NoLocals]
            /\ Sleep(t, loc[t].ret)
       ELSE /\ pc' = [pc EXCEPT ![t] = "so_load"]
            /\ UNCHANGED <<loc, slept>>
    /\ UNCHANGED <<regVars, cfgVars, callVars, sock, chan, pkt, wire,
                   ticks, pushes, faults, crashed>>

\* lines 189-193 as seen from a goroutine that has just finished a step:
\* the reads of t.multicast and t.destinations are reads of maps only the
\* caller writes, so each is taken together with the step before it.
\* AfterIncr: where sendOut stands after line 187 (l are its locals)
AfterIncr(t, l) ==
    IF multicast[universeOf(t)] THEN <<"so_mcw", l>>
    ELSE IF destinations[universeOf(t)] = <<>> THEN <<l.ret, NoLocals>>
    ELSE <<"so_dst", [l EXCEPT !.dsts = destinations[universeOf(t)], !.idx = 1]>>

\* AfterMulticast: where sendOut stands after line 191; line 193 evaluates
\* the slice t.destinations[universe] once
AfterMulticast(t, l) ==
    IF destinations[universeOf(t)] = <<>> THEN <<l.ret, NoLocals>>
    ELSE <<"so_dst", [l EXCEPT !.dsts = destinations[universeOf(t)], !.idx = 1]>>

\* lines 186-187: packet := t.master[universe], a second read of the map,
\* and packet.SequenceIncr(); a nil packet panics
SendOutIncr(t) ==
    /\ ~crashed
    /\ pc[t] = "so_load"
    /\ IF master[universeOf(t)] = Nil
       THEN /\ crashed' = TRUE
            /\ UNCHANGED <<pkt, pc, loc, slept>>
       ELSE /\ pkt' = [pkt EXCEPT ![master[universeOf(t)]] = SequenceIncr(@)]
            /\ LET l == [loc[t] EXCEPT !.packet = master[universeOf(t)]]
               IN  /\ pc' = [pc EXCEPT ![t] = AfterIncr(t, l)[1]]
                   /\ loc' = [loc EXCEPT ![t] = AfterIncr(t, l)[2]]
                   /\ Sleep(t, AfterIncr(t, l)[1])
            /\ UNCHANGED crashed
    /\ UNCHANGED <<regVars, cfgVars, callVars, sock, chan, wire, ticks,
                   pushes, faults>>

\* What packet.getBytes() can return to goroutine t, which holds no lock: the
\* packet's frame, or, while a send goroutine stands at its SetData of
\* another payload into the same packet (line 100), a frame whose payload
\* is partly the old one and partly the new one.
FramesRead(t) ==
    LET p == pkt[loc[t].packet]
        racing == {q \in Sessions :
                      /\ pc[SND(q)] = "setdata"
                      /\ master[univ[q]] = loc[t].packet
                      /\ loc[SND(q)].i # p.data}
    IN  {getBytes(p)}
            \cup (IF racing = {} THEN {}
                  ELSE {[getBytes(p) EXCEPT !.data = TornData]})

\* server.WriteToUDP(packet.getBytes(), dst) by goroutine t: the datagram
\* leaves through the session's socket unless the write fails, which it
\* always does on a closed socket and may do on an open one as long as the
\* run's budget of refused writes lasts; the error is dropped either way.
WriteToUDP(t, dst, ok) ==
    /\ ok => sock[t[1]] = "open"
    /\ (~ok /\ sock[t[1]] = "open") => faults > 0
    /\ faults' = IF ~ok /\ sock[t[1]] = "open" THEN faults - 1 ELSE faults
    /\ IF ok
       THEN /\ \E f \in FramesRead(t) :
                  wire' = [wire EXCEPT ![t[1]] =
                            [sock |-> t[1], frame |-> f, dst |-> dst, tx |-> t,
                             n |-> loc[t].nw + 1, lost |-> FALSE]]
       ELSE /\ wire' = [wire EXCEPT ![t[1]].lost = TRUE]

\* line 190: the multicast write
SendOutMulticastWrite(t) ==
    /\ ~crashed
    /\ pc[t] = "so_mcw"
    /\ \E ok \in BOOLEAN :
          /\ WriteToUDP(t, generateMulticast(universeOf(t)), ok)
          /\ LET l == [loc[t] EXCEPT !.nw = IF ok THEN @ + 1 ELSE @]
             IN  /\ pc' = [pc EXCEPT ![t] = AfterMulticast(t, l)[1]]
                 /\ loc' = [loc EXCEPT ![t] = AfterMulticast(t, l)[2]]
                 /\ Sleep(t, AfterMulticast(t, l)[1])
    /\ UNCHANGED <<regVars, cfgVars, callVars, sock, chan, pkt, ticks, pushes,
                   crashed>>

\* line 194: one unicast write of the loop; after the last one sendOut returns
SendOutDest(t) ==
    /\ ~crashed
    /\ pc[t] = "so_dst"
    /\ \E ok \in BOOLEAN :
          /\ WriteToUDP(t, loc[t].dsts[loc[t].idx], ok)
          /\ LET l == [loc[t] EXCEPT !.nw = IF ok THEN @ + 1 ELSE @,
                                     !.idx = @ + 1]
             IN  loc' = [loc EXCEPT ![t] = IF loc[t].idx = Len(loc[t].dsts)
                                           THEN NoLocals ELSE l]
    /\ pc' = [pc EXCEPT ![t] = IF loc[t].idx = Len(loc[t].dsts)
                                THEN loc[t].ret ELSE "so_dst"]
    /\ Sleep(t, IF loc[t].idx = Len(loc[t].dsts) THEN loc[t].ret ELSE "so_dst")
    /\ UNCHANGED <<regVars, cfgVars, callVars, sock, chan, pkt, ticks, pushes,
                   crashed>>

\* ------------------------------------------- keep-alive goroutine (87-96)
\* line 90, reached when the goroutine starts and each time Sleep returns:
\* leave the loop if the universe has no master packet, else call sendOut.
\* ticks bounds the rounds that go on to sendOut, never the exit.
KeepAliveLoop(s) ==
    /\ ~crashed
    /\ pc[KA(s)] = "loop"
    /\ IF master[univ[s]] = Nil
       THEN /\ pc' = [pc EXCEPT ![KA(s)] = "done"]
            /\ UNCHANGED <<loc, ticks>>
       ELSE /\ ticks > 0
            /\ EnterSendOut(KA(s), "loop")
            /\ ticks' = ticks - 1
    /\ UNCHANGED <<regVars, cfgVars, callVars, slept, sock, chan, pkt, wire, pushes, faults,
                   crashed>>

\* ------------------------------------------------ send goroutine (98-110)
\* the caller sends d on the unbuffered channel and line 99 receives it
Push(s, d) ==
    /\ ~crashed
    /\ callPc[s] = "returned"
    /\ chan[s] = "open"
    /\ pc[SND(s)] = "recv"
    /\ pushes > 0
    /\ pushes' = pushes - 1
    /\ loc' = [loc EXCEPT ![SND(s)].i = d]
    /\ pc' = [pc EXCEPT ![SND(s)] = "setdata"]
    /\ UNCHANGED <<regVars, cfgVars, callVars, slept, sock, chan, pkt, wire,
                   ticks, faults, crashed>>

\* the caller closes the channel
Close(s) ==
    /\ ~crashed
    /\ callPc[s] = "returned"
    /\ chan[s] = "open"
    /\ chan' = [chan EXCEPT ![s] = "closed"]
    /\ UNCHANGED <<regVars, cfgVars, callVars, slept, sock, pkt, pc, loc, wire,
                   ticks, pushes, faults, crashed>>

\* line 99: the range over ch ends once the channel is closed
RecvClosed(s) ==
    /\ ~crashed
    /\ pc[SND(s)] = "recv"
    /\ chan[s] = "closed"
    /\ pc' = [pc EXCEPT ![SND(s)] = "setterm"]
    /\ UNCHANGED <<regVars, cfgVars, callVars, slept, sock, chan, pkt, loc, wire,
                   ticks, pushes, faults, crashed>>

\* lines 100-101: t.master[universe].SetData(i[:]) then sendOut; a missing
\* entry is a nil pointer and the call panics
SendSetData(s) ==
    /\ ~crashed
    /\ pc[SND(s)] = "setdata"
    /\ IF master[univ[s]] = Nil
       THEN /\ crashed' = TRUE
            /\ UNCHANGED <<pkt, pc, loc>>
       ELSE /\ pkt' = [pkt EXCEPT ![master[univ[s]]] = SetData(@, loc[SND(s)].i)]
            /\ EnterSendOut(SND(s), "recv")
            /\ UNCHANGED crashed
    /\ UNCHANGED <<regVars, cfgVars, callVars, slept, sock, chan, wire, ticks,
                   pushes, faults>>

\* lines 104-105: t.master[universe].SetStreamTerminated(true) then sendOut
SendSetTerminated(s) ==
    /\ ~crashed
    /\ pc[SND(s)] = "setterm"
    /\ IF master[univ[s]] = Nil
       THEN /\ crashed' = TRUE
            /\ UNCHANGED <<pkt, pc, loc>>
       ELSE /\ pkt' = [pkt EXCEPT ![master[univ[s]]] =
                                     SetStreamTerminated(@, TRUE)]
            /\ EnterSendOut(SND(s), "delM")
            /\ UNCHANGED crashed
    /\ UNCHANGED <<regVars, cfgVars, callVars, slept, sock, chan, wire, ticks,
                   pushes, faults>>

\* line 107: delete(t.master, universe)
SendDeleteMaster(s) ==
    /\ ~crashed
    /\ pc[SND(s)] = "delM"
    /\ master' = [master EXCEPT ![univ[s]] = Nil]
    /\ pc' = [pc EXCEPT ![SND(s)] = "delU"]
    /\ UNCHANGED <<universes, cfgVars, callVars, slept, sock, chan, pkt, loc, wire,
                   ticks, pushes, faults, crashed>>

\* the teardown as it would be if it also dropped the universe's
\* configuration along with its registry entry
SendDeleteUniverseClearsConfig(s) ==
    /\ ~crashed
    /\ pc[SND(s)] = "delU"
    /\ universes' = [universes EXCEPT ![univ[s]] = Nil]
    /\ multicast' = [multicast EXCEPT ![univ[s]] = FALSE]
    /\ destinations' = [destinations EXCEPT ![univ[s]] = <<>>]
    /\ pc' = [pc EXCEPT ![SND(s)] = "close"]
    /\ UNCHANGED <<master, priority, keepAliveInterval, destCall, configs,
                   callVars, slept, sock, chan, pkt, loc, wire, ticks, pushes, faults,
                   crashed>>

\* line 108: delete(t.universes, universe)
SendDeleteUniverse(s) ==
    /\ ~crashed
    /\ pc[SND(s)] = "delU"
    /\ universes' = [universes EXCEPT ![univ[s]] = Nil]
    /\ pc' = [pc EXCEPT ![SND(s)] = "close"]
    /\ UNCHANGED <<master, cfgVars, callVars, slept, sock, chan, pkt, loc, wire,
                   ticks, pushes, faults, crashed>>

\* line 109: serv.Close(), the goroutine ends
SendCloseSocket(s) ==
    /\ ~crashed
    /\ pc[SND(s)] = "close"
    /\ sock' = [sock EXCEPT ![s] = "closed"]
    /\ pc' = [pc EXCEPT ![SND(s)] = "done"]
    /\ UNCHANGED <<regVars, cfgVars, callVars, slept, chan, pkt, loc, wire, ticks,
                   pushes, faults, crashed>>

\* ---------------------------------------------------------- configuration
\* lines 134-136
SetMulticast(u, b) ==
    /\ ~crashed
    /\ configs > 0
    /\ configs' = configs - 1
    /\ multicast' = [multicast EXCEPT ![u] = b]
    /\ UNCHANGED <<regVars, destinations, priority, keepAliveInterval,
                   destCall, callVars, slept, sock, chan, pkt, pc, loc, wire,
                   ticks, pushes, faults, crashed>>

\* lines 148-169: the loop, the assignment of line 163 and the returned errors
SetDestinations(u, hosts) ==
    /\ ~crashed
    /\ configs > 0
    /\ configs' = configs - 1
    /\ destinations' = [destinations EXCEPT ![u] = NewDest(hosts)]
    /\ destCall' = [universe |-> u, hosts |-> hosts, errs |-> DestResult(hosts)]
    /\ UNCHANGED <<regVars, multicast, priority, keepAliveInterval, callVars,
                   slept, sock, chan, pkt, pc, loc, wire, ticks, pushes, faults,
                   crashed>>

\* lines 202-204
SetKeepAlive(interval) ==
    /\ ~crashed
    /\ configs > 0
    /\ configs' = configs - 1
    /\ keepAliveInterval' = interval
    /\ UNCHANGED <<regVars, destinations, multicast, priority, destCall,
                   callVars, slept, sock, chan, pkt, pc, loc, wire, ticks,
                   pushes, faults, crashed>>

\* lines 209-211
SetPriority(prio) ==
    /\ ~crashed
    /\ configs > 0
    /\ configs' = configs - 1
    /\ priority' = prio
    /\ UNCHANGED <<regVars, destinations, multicast, keepAliveInterval,
                   destCall, callVars, slept, sock, chan, pkt, pc, loc, wire,
                   ticks, pushes, faults, crashed>>

\* ------------------------------------------------- unsynchronised maps
\* Who stands at an access of a registry map.  Session s writes t.master
\* from its Activate call (line 84) or from its send goroutine (line 107),
\* and t.universes likewise (lines 74 and 108).
MasterWriting(s) == callPc[s] = "a_regM" \/ pc[SND(s)] = "delM"

\* lines 90, 182, 186, 100, 104
MasterReading(t) ==
    pc[t] \in {"loop", "so_check", "so_load", "setdata", "setterm"}

UniversesWriting(s) == callPc[s] = "a_regU" \/ pc[SND(s)] = "delU"

\* an Activate call can be started on slot s, and then reads t.universes at
\* line 60
UniversesReading(s) ==
    /\ callPc[s] = "idle"
    /\ sock[s] = "none"
    /\ \A r \in 1..(s - 1) : sock[r] # "none"

\* the caller can write t.multicast (line 135) or t.destinations (line 163)
ConfigWriting == configs > 0

\* sendOut reads t.multicast (line 189) and t.destinations (line 193)
ConfigReading(t) == pc[t] \in {"so_load", "so_mcw"}

\* a write of a map while another goroutine reads or writes the same map
MapRace ==
    \/ \E s \in Sessions :
          /\ MasterWriting(s)
          /\ \/ \E t \in Threads : MasterReading(t)
             \/ \E r \in Sessions \ {s} : MasterWriting(r)
    \/ \E s \in Sessions :
          /\ UniversesWriting(s)
          /\ \E r \in Sessions \ {s} : UniversesReading(r) \/ UniversesWriting(r)
    \/ ConfigWriting /\ \E t \in Threads : ConfigReading(t)

\* The runtime notices the overlapping accesses of a map ("concurrent map
\* writes", "concurrent map read and map write") and kills the process.
ConcurrentMapAccess ==
    /\ ~crashed
    /\ MapRace
    /\ crashed' = TRUE
    /\ UNCHANGED <<regVars, cfgVars, callVars, slept, sock, chan, pkt, pc,
                   loc, wire, ticks, pushes, faults>>

\* ------------------------------------------------------------------ Next
\* one step of goroutine t
ThreadStep(t) ==
    \/ SendOutCheck(t)
    \/ SendOutIncr(t)
    \/ SendOutMulticastWrite(t)
    \/ SendOutDest(t)
    \/ (t[2] = "ka" /\ KeepAliveLoop(t[1]))
    \/ (t[2] = "snd" /\ RecvClosed(t[1]))
    \/ (t[2] = "snd" /\ SendSetData(t[1]))
    \/ (t[2] = "snd" /\ SendSetTerminated(t[1]))
    \/ (t[2] = "snd" /\ SendDeleteMaster(t[1]))
    \/ (t[2] = "snd" /\ SendDeleteUniverse(t[1]))
    \/ (t[2] = "snd" /\ SendCloseSocket(t[1]))

\* one step of the caller, who works with a single universe and leaves the
\* Transmitter's defaults (priority, keep-alive interval) as they are
CallerStep ==
    \/ \E s \in Sessions, u \in OneUniverse : ActivateCall(s, u)
    \/ \E s \in Sessions : ActivateRegisterChannel(s)
    \/ \E s \in Sessions : ActivateRegisterMaster(s)
    \/ \E s \in Sessions, d \in Payloads : Push(s, d)
    \/ \E s \in Sessions : Close(s)
    \/ \E u \in OneUniverse, b \in BOOLEAN : SetMulticast(u, b)
    \/ \E u \in OneUniverse, hosts \in HostLists : SetDestinations(u, hosts)

Next ==
    \/ CallerStep
    \/ \E t \in Threads : ThreadStep(t)
    \/ ConcurrentMapAccess

Spec == Init /\ [][Next]_vars

\* Goroutines that can run are eventually scheduled; the caller owes nothing.
FairSpec == Spec /\ \A t \in Threads : WF_vars(ThreadStep(t))

\* --------------------------------------------------------- quiet sessions
\* one step of goroutine t when nothing is pushed and neither multicast nor
\* a destination is configured: sendOut has nowhere to write
QuietThreadStep(t) ==
    \/ SendOutCheck(t)
    \/ SendOutIncr(t)
    \/ (t[2] = "ka" /\ KeepAliveLoop(t[1]))
    \/ (t[2] = "snd" /\ RecvClosed(t[1]))
    \/ (t[2] = "snd" /\ SendSetTerminated(t[1]))
    \/ (t[2] = "snd" /\ SendDeleteMaster(t[1]))
    \/ (t[2] = "snd" /\ SendDeleteUniverse(t[1]))
    \/ (t[2] = "snd" /\ SendCloseSocket(t[1]))

\* ------------------------------------------------ changing the defaults
\* The caller changes the priority and the keep-alive interval, before or
\* after activating, and closes streams.
InitDefaults == InitState(MaxTicks, 0, MaxConfig, 0)

NextDefaults ==
    \/ \E s \in Sessions, u \in OneUniverse : ActivateCall(s, u)
    \/ \E s \in Sessions : ActivateRegisterChannel(s)
    \/ \E s \in Sessions : ActivateRegisterMaster(s)
    \/ \E s \in Sessions : Close(s)
    \/ \E interval \in Intervals : SetKeepAlive(interval)
    \/ \E prio \in Priorities : SetPriority(prio)
    \/ \E t \in Threads : QuietThreadStep(t)

SpecDefaults == InitDefaults /\ [][NextDefaults]_vars

\* ------------------------------------------------------------- fan-out
\* One session whose universe has multicast and a destination configured
\* at some point, on a network that may refuse a write.
InitFan == InitState(MaxTicks, MaxPushes, MaxFanConfig, MaxFaults)

NextFan ==
    \/ \E s \in OneSession, u \in OneUniverse : ActivateCall(s, u)
    \/ \E s \in OneSession : ActivateRegisterChannel(s)
    \/ \E s \in OneSession : ActivateRegisterMaster(s)
    \/ \E s \in OneSession, d \in Payloads : Push(s, d)
    \/ \E s \in OneSession : Close(s)
    \/ \E u \in OneUniverse, b \in BOOLEAN : SetMulticast(u, b)
    \/ \E u \in OneUniverse, hosts \in HostLists : SetDestinations(u, hosts)
    \/ \E t \in OneSession \X Kinds : ThreadStep(t)
    \/ ConcurrentMapAccess

SpecFan == InitFan /\ [][NextFan]_vars

\* ---------------------------------------------------------- two universes
\* Callers activate any of the universes, also at the same time, and close
\* the streams.
InitUniverses == InitState(MaxTicks, 0, 0, 0)

NextUniverses ==
    \/ \E s \in Sessions, u \in Universes : ActivateCall(s, u)
    \/ \E s \in Sessions : ActivateRegisterChannel(s)
    \/ \E s \in Sessions : ActivateRegisterMaster(s)
    \/ \E s \in Sessions : Close(s)
    \/ \E t \in Threads : QuietThreadStep(t)
    \/ ConcurrentMapAccess

SpecUniverses == InitUniverses /\ [][NextUniverses]_vars

\* ------------------------------------------------- SetDestinations alone
\* The caller only configures the destinations of one universe, repeatedly
\* and with longer host lists.
InitDest == InitState(0, 0, MaxDestCalls, 0)

NextDest ==
    \E u \in OneUniverse, hosts \in DestHostLists : SetDestinations(u, hosts)

SpecDest == InitDest /\ [][NextDest]_vars

\* ================================================================ claims
\* a datagram left through session s's socket in this step
Sent(s) == wire'[s] # wire[s] /\ ~wire'[s].lost

\* the datagram sent in this step is the first one of its Transmit
FirstOfTransmit(s) == Sent(s) /\ wire'[s].n = 1

\* goroutine t returns from a sendOut call that incremented the sequence
TransmitReturns(t) ==
    /\ pc[t] \in {"so_load", "so_mcw", "so_dst"}
    /\ pc'[t] \notin SendOutPcs
    /\ ~crashed'

\* Activate on slot r passes the already-activated check in this step
PassesCheck(r) == callPc[r] = "idle" /\ callPc'[r] = "a_regU"

\* session s has been handed to its caller and its stream is still open
Live(s) == callPc[s] = "returned" /\ chan[s] = "open"

\* C1: on one session's socket, the first frame of each Transmit carries the
\* sequence number of the previously sent frame plus one (mod 256), unless a
\* write failed in between: no gap and no repeat between successive
\* Transmits.
C1_SequenceStepsByOne ==
    [][\A s \in Sessions :
          (FirstOfTransmit(s) /\ wire[s].sock # Nil /\ ~wire[s].lost)
             => wire'[s].frame.seq = (wire[s].frame.seq + 1) % SeqModulus]_vars

\* C2: the keep-alive goroutine and the send goroutine of one session are
\* never both inside sendOut between the sequence increment and the last
\* destination write.
C2_TransmitsExclusive ==
    \A s \in Sessions :
        ~(pc[KA(s)] \in InTransmit /\ pc[SND(s)] \in InTransmit)

\* C3: once a frame with the termination flag has left through a session's
\* socket, every later datagram on that socket belongs to the same Transmit:
\* the terminal frame is sent once and is the last frame.
C3_TerminalFrameIsLast ==
    [][\A s \in Sessions :
          (wire[s].sock # Nil /\ wire[s].frame.term /\ Sent(s))
             => (wire'[s].tx = wire[s].tx /\ wire'[s].n = wire[s].n + 1)]_vars

\* C4: a universe never has two live sessions (two returned channels that
\* are both still open).
C4_OneLiveSessionPerUniverse ==
    \A s \in Sessions, r \in Sessions :
        (s # r /\ Live(s) /\ Live(r)) => univ[s] # univ[r]

\* C5: when session r was activated after the teardown of session s had
\* completed, no step of s's keep-alive goroutine changes r's frame state.
C5_NoLeftoverTouchesNewSession ==
    [][\A s \in Sessions, r \in Sessions :
          (s \in prev[r] /\ pc'[KA(s)] # pc[KA(s)]) => pkt'[r] = pkt[r]]_vars

\* C6: whenever Activate passes the already-activated check for a universe,
\* every session of that universe returned earlier is Closed: its send
\* goroutine has finished and its socket is released.
C6_ReactivatableOnlyAfterClosed ==
    [][\A r \in Sessions : PassesCheck(r) =>
          \A s \in Sessions \ {r} :
              (callPc[s] = "returned" /\ univ[s] = univ'[r])
                 => (pc[SND(s)] = "done" /\ sock[s] = "closed")]_vars

\* C7: every sendOut call that incremented the sequence counter has written
\* at least one datagram by the time it returns.
C7_IncrementImpliesDatagram ==
    [][\A t \in Threads :
          TransmitReturns(t) => (loc[t].nw > 0 \/ Sent(t[1]))]_vars

\* C8: a session whose stream is closed is torn down: as long as its own
\* entries are registered or its terminal Transmit and teardown are not
\* finished, its send goroutine can take its next step.
C8_ClosedStreamIsTornDown ==
    \A s \in Sessions :
        (chan[s] = "closed" /\ ~ENABLED ThreadStep(SND(s)))
           => (pc[SND(s)] = "done" /\ universes[univ[s]] # s
               /\ master[univ[s]] # s)

\* C9: once a session's send goroutine has finished (terminal frame sent,
\* registry entries deleted, socket closed), the next time its keep-alive
\* goroutine evaluates the loop condition it stops, also when every other
\* session was activated after that teardown.
C9_KeepAliveStopsAfterTeardown ==
    [][\A s \in Sessions :
          (/\ pc[SND(s)] = "done"
           /\ \A r \in Sessions \ {s} : callPc[r] # "idle" => s \in prev[r]
           /\ pc[KA(s)] = "loop"
           /\ pc'[KA(s)] # "loop")
             => pc'[KA(s)] = "done"]_vars

\* C10: a socket that is open while its session's stream is closed is still
\* going to be released: the send goroutine that closes it can proceed.
C10_SocketReleasedOnEveryPath ==
    \A s \in Sessions :
        (sock[s] = "open" /\ chan[s] = "closed")
           => ENABLED ThreadStep(SND(s))
\* an Activate call returns an error in this step
ActivateFails == res' \in ActivateErrors /\ res' # res

\* C11: a step in which Activate returns an error (universe already active,
\* bind address unresolvable, socket not created) changes none of the four
\* registry maps and starts nothing: no socket, no channel, no packet, no
\* goroutine.
C11_FailedActivateChangesNothing ==
    [][ActivateFails =>
          UNCHANGED <<universes, master, destinations, multicast, sock, chan,
                      pkt, pc, callPc>>]_vars

\* an Activate was refused for a universe whose session is live
C11_Witness ==
    /\ res = "AlreadyActive"
    /\ Live(1)
    /\ IsActivated(univ[1])
\* the entries of hosts that are not empty and resolve, in input order
ResolvableEntries(hosts) ==
    SelectSeq(hosts, LAMBDA h : h # "" /\ h \in Resolvable)

\* their endpoints on the sACN port
Endpoints(hosts) ==
    [i \in 1..Len(ResolvableEntries(hosts)) |->
        <<ResolvableEntries(hosts)[i], SACNPort>>]

\* the positions of hosts holding a non-empty entry that does not resolve
Unresolvable(hosts) ==
    {i \in DOMAIN hosts : hosts[i] # "" /\ hosts[i] \notin Resolvable}

\* C12: after SetDestinations(u, hosts) the destination list of u is exactly
\* the endpoints (port 5568) of the non-empty resolvable entries of hosts in
\* input order, whatever the list was before, and the call returned one error
\* per non-empty unresolvable entry; empty strings give no error and an
\* input with nothing resolvable gives the empty list.
C12_DestinationsAreResolvedEntries ==
    destCall.universe # Nil =>
        /\ destinations[destCall.universe] = Endpoints(destCall.hosts)
        /\ Len(destCall.errs) = Cardinality(Unresolvable(destCall.hosts))

\* the call SetDestinations(u, <<"h1", "", "bad", "h2">>) has returned: two
\* endpoints in input order and one error
C12_Witness ==
    /\ destCall.hosts = <<"h1", "", "bad", "h2">>
    /\ destinations[destCall.universe]
          = <<ResolveUDPAddr("h1"), ResolveUDPAddr("h2")>>
    /\ Len(destCall.errs) = 1

\* goroutine t leaves line 187 in this step: its sendOut call has incremented
Increments(t) == pc[t] = "so_load" /\ pc'[t] # "so_load"

\* goroutine t's multicast write leaves through the socket in this step
MulticastWritten(t) ==
    pc[t] = "so_mcw" /\ pc'[t] # "so_mcw" /\ Sent(t[1])

\* C13: multicast and destination configuration does not depend on the
\* session lifecycle.  SetMulticast and SetDestinations are accepted whether
\* or not the universe is active; every step that is not a configuration
\* call (Activate, the goroutines, the teardown) leaves every universe's
\* multicast flag and destination list unchanged; and every Transmit that
\* finds the flag set, the first after activation included, goes on to
\* write to the universe's multicast endpoint.
C13_ConfigurationOutlivesSessions ==
    [][/\ \A u \in OneUniverse :
             (~crashed /\ configs > 0)
                => (ENABLED SetMulticast(u, TRUE)
                    /\ ENABLED SetDestinations(u, <<"h1">>))
       /\ configs' = configs => UNCHANGED <<multicast, destinations>>
       /\ \A t \in Threads :
             /\ (Increments(t) /\ multicast[universeOf(t)])
                   => pc'[t] = "so_mcw"
             /\ MulticastWritten(t)
                   => wire'[t[1]].dst = generateMulticast(universeOf(t))]_vars

\* the universe was activated again after the teardown of its first session
\* and the first frame of the second session went to the multicast endpoint
C13_Witness ==
    /\ multicast[1]
    /\ 1 \in prev[2]
    /\ wire[2].dst = generateMulticast(1)
    /\ wire[2].frame.seq = 1
    /\ wire[2].tx = KA(2)
\* C14: a session keeps the keep-alive interval it was activated with: every
\* Sleep of its keep-alive goroutine lasts t.keepAliveInterval as it was when
\* Activate started the goroutine, whatever SetKeepAlive was called with
\* since.
C14_SessionKeepsActivationInterval ==
    [][\A s \in Sessions :
          slept'[s] # slept[s] => slept'[s] = atActivate[s]]_vars
\* the Activate call on slot s is between its socket and its return
InActivate(s) == callPc[s] \in {"a_regU", "a_regM"}

\* C15: sessions of different universes do not disturb each other: two
\* Activate calls for different universes that are in progress together
\* both go on to return their channel; nothing cuts them short.
C15_ConcurrentActivatesBothSucceed ==
    \A s \in Sessions, r \in Sessions :
        (InActivate(s) /\ InActivate(r) /\ univ[s] # univ[r]) => ~crashed
\* the datagram sent in this step follows, in the same sendOut call, the
\* datagram sent before it on the socket
NextOfTransmit(s) ==
    /\ Sent(s)
    /\ wire'[s].tx = wire[s].tx
    /\ wire'[s].n = wire[s].n + 1

\* C16: a Transmit sends one frame to all its destinations, the multicast
\* endpoint first: the multicast datagram is the first of its sendOut call
\* and every further datagram of the call carries the frame of the one
\* before it.
C16_OneFrameToEveryDestination ==
    [][/\ \A t \in Threads : MulticastWritten(t) => wire'[t[1]].n = 1
       /\ \A s \in Sessions :
             NextOfTransmit(s) => wire'[s].frame = wire[s].frame]_vars
\* C17: accesses of the registry maps are synchronised; in particular the
\* teardown of a session never stands at its delete of the universe's
\* t.master entry (line 107) while the keep-alive goroutine of the same
\* session stands at a read of t.master (lines 90, 182, 186).
C17_RegistryAccessesExclusive ==
    \A s \in Sessions :
        (pc[SND(s)] = "delM" /\ MasterWriting(s)) => ~MasterReading(KA(s))
\* a keep-alive frame leaves through session s's socket in this step
KeepAliveSent(s) == Sent(s) /\ wire'[s].tx[2] = "ka"

\* C18: a keep-alive Transmit changes only the sequence counter and setting
\* a payload changes only the payload, so every keep-alive frame carries the
\* payload its packet holds when the frame is written: the one most
\* recently set by the send goroutine, or the zero payload.
C18_KeepAliveCarriesCurrentPayload ==
    [][\A s \in Sessions :
          /\ (pc[KA(s)] # "none" /\ pc'[KA(s)] # pc[KA(s)])
                => \A r \in Sessions :
                       pkt'[r] = [pkt[r] EXCEPT !.seq = pkt'[r].seq]
          /\ (pc[SND(s)] = "setdata" /\ pc'[SND(s)] # "setdata")
                => \A r \in Sessions :
                       pkt'[r] = [pkt[r] EXCEPT !.data = pkt'[r].data]
          /\ KeepAliveSent(s)
                => wire'[s].frame.data = pkt[loc[wire'[s].tx].packet].data]_vars
\* goroutine t executes a WriteToUDP of its sendOut call in this step
Writes(t) ==
    /\ pc[t] \in InTransmit
    /\ pc'[t] # pc[t] \/ loc'[t] # loc[t]

\* C19: every WriteToUDP of a sendOut call is made on a socket that is still
\* open: no write is attempted after serv.Close().
C19_WritesOnlyOnOpenSocket ==
    [][\A t \in Threads : Writes(t) => sock[t[1]] = "open"]_vars

\* C20: whenever a send goroutine is about to use t.master[universe], to set
\* a received payload (line 100) or the termination flag (line 104), the
\* entry is there.
C20_SendGoroutineFindsMaster ==
    \A s \in Sessions :
        pc[SND(s)] \in {"setdata", "setterm"} => master[univ[s]] # Nil
====
